---- MODULE Spec2Model ----
(***************************************************************************)
(* The price / chart data-refresh pipeline of the Bitcoin price app.       *)
(*                                                                         *)
(* Five screens share one shape (a mount effect that starts an initial     *)
(* fetch and a periodic timer, an async fetch routine wrapped in           *)
(* try/catch/finally, React state cells written by the routine):           *)
(*   "detailed"  src/app/(tabs)/index.tsx       fetchBitcoinData           *)
(*   "chart"     src/unnamed/part_000:42-557    fetchBitcoinData +         *)
(*                                              fetchChartData             *)
(*   "simple"    src/unnamed/part_000:751-858   fetchBitcoinPrice          *)
(*   "self"      src/unnamed/part_000:935-1196  fetchBitcoinData           *)
(*   "equity"    src/app/(tabs)/strategy.tsx    fetchMSTRData              *)
(*                                                                         *)
(* A behaviour is the life of one mounted screen.  An async routine is a   *)
(* sequence of atomic steps, one per resumption of the event loop: the     *)
(* synchronous prefix up to the first await, then one step per response.   *)
(* Routines may overlap; nothing in the source prevents it.                *)
(*                                                                         *)
(* The routines are created by the component's render and read the state   *)
(* cells of THAT render.  The mount effect has an empty dependency list,   *)
(* so the routine it calls, and the one its timer keeps calling, is the    *)
(* routine of the first render: the variable closure holds what it sees.   *)
(***************************************************************************)
EXTENDS Integers, Sequences, FiniteSets, Bags, TLC

VARIABLES
    screen,            \* which of the five screens this behaviour is
    phase,             \* "rendered" (before effects), "mounted", "unmounted"
    price,             \* useState<number | null>(null)
    previousPrice,     \* useState<number | null>(null)
    loading,           \* useState<boolean>(true)
    lastUpdated,       \* useState<Date | null>(null); a Date is the clock value
    priceColor,        \* useState<string | null>(null)
    performanceData,   \* useState<BitcoinPerformanceData | null>(null)
    error,             \* useState<string | null>(null)
    mstrData,          \* useState<MSTRData | null>(null)
    chartData,         \* useState<ChartData | null>(null)
    selectedInterval,  \* useState<TimeInterval>('1D')
    chartLoading,      \* useState<boolean>(false)
    closure,           \* state cells as seen by the routines the mount effect captured
    intervalTimer,     \* TRUE while the setInterval handle is live
    flashTimers,       \* number of pending setTimeout(() => setPriceColor(null), 2000)
    calls,             \* bag of the routine invocations that are awaiting a response
    nStarted,          \* number of routine invocations started so far
    nTicks,            \* number of periodic timer ticks so far
    nSwitches,         \* number of interval-button presses so far
    effectPending,     \* TRUE while the interval effect of a press has yet to run
    chartSource,       \* the raw series, oldest first, behind chartData (observer)
    clock,             \* logical time: one unit per step that reads new Date()
    last               \* record of the routine step that ran last (observer)

vars == << screen, phase, price, previousPrice, loading, lastUpdated, priceColor,
           performanceData, error, mstrData, chartData, selectedInterval,
           chartLoading, closure, intervalTimer, flashTimers, calls, nStarted,
           nTicks, nSwitches, effectPending, chartSource, clock, last >>

(***************************************************************************)
(* Bounds of the model.                                                    *)
(***************************************************************************)
MaxTicks == 1        \* periodic timer ticks per mount
MaxPrice == 2        \* upstream prices range over 1..MaxPrice (scaled)
MaxLen == 3          \* length of a market_chart series of a price routine, 0..MaxLen
MaxChartLen == 16    \* length of a series offered to fetchChartData, 0..MaxChartLen
MaxDays == 2         \* number of dates in an equity daily series, 0..MaxDays
MaxSwitches == 1     \* interval-button presses per mount
MaxRetries == 2      \* timer ticks per mount where overlapping attempts are studied
MaxWindowLen == 50   \* length of a series where the 48-point window is studied, 2..MaxWindowLen

(***************************************************************************)
(* JavaScript values.  Every scalar is a record [k, v, d]: a number is the *)
(* rational v/d in lowest terms with d > 0; the other kinds carry no       *)
(* payload.  Strings that the code parses with parseFloat are kind "str".  *)
(***************************************************************************)
Null == [k |-> "null", v |-> 0, d |-> 1]
Undef == [k |-> "undefined", v |-> 0, d |-> 1]
NaN == [k |-> "NaN", v |-> 0, d |-> 1]
Num(n) == [k |-> "num", v |-> n, d |-> 1]
Inf(s) == [k |-> "Infinity", v |-> s, d |-> 1]
Str(n) == [k |-> "str", v |-> n, d |-> 1]
Garbage == [k |-> "str", v |-> 0, d |-> 0]

IsNum(x) == x.k = "num"

Abs(n) == IF n < 0 THEN -n ELSE n

RECURSIVE Gcd(_, _)
Gcd(a, b) == IF b = 0 THEN a ELSE Gcd(b, a % b)

Rat(n, m) ==
    LET g == Gcd(Abs(n), Abs(m))
        s == IF m < 0 THEN -1 ELSE 1
    IN  [k |-> "num", v |-> (s * n) \div g, d |-> (s * m) \div g]

\* ToNumber: null is 0, undefined is NaN
ToNumber(x) ==
    CASE x.k = "null" -> Num(0)
      [] x.k = "undefined" -> NaN
      [] x.k = "str" -> IF x.d = 0 THEN NaN ELSE Num(x.v)
      [] OTHER -> x

\* parseFloat(s): the number a numeric string spells, NaN for anything else
ParseFloat(x) == IF x.k = "str" /\ x.d = 1 THEN Num(x.v) ELSE NaN

\* a - b
JsSub(a, b) ==
    LET x == ToNumber(a)
        y == ToNumber(b)
    IN  CASE x.k = "NaN" \/ y.k = "NaN" -> NaN
          [] x.k = "Infinity" /\ y.k = "Infinity" -> IF x.v = y.v THEN NaN ELSE x
          [] x.k = "Infinity" -> x
          [] y.k = "Infinity" -> Inf(-y.v)
          [] OTHER -> Rat(x.v * y.d - y.v * x.d, x.d * y.d)

\* a / b: x/0 is +-Infinity, 0/0 is NaN; nothing is thrown
JsDiv(a, b) ==
    LET x == ToNumber(a)
        y == ToNumber(b)
    IN  CASE x.k = "NaN" \/ y.k = "NaN" -> NaN
          [] x.k = "Infinity" /\ y.k = "Infinity" -> NaN
          [] x.k = "Infinity" -> IF y.v < 0 THEN Inf(-x.v) ELSE x
          [] y.k = "Infinity" -> Num(0)
          [] y.v = 0 -> IF x.v = 0 THEN NaN ELSE Inf(IF x.v < 0 THEN -1 ELSE 1)
          [] OTHER -> Rat(x.v * y.d, x.d * y.v)

\* a * b
JsMul(a, b) ==
    LET x == ToNumber(a)
        y == ToNumber(b)
    IN  CASE x.k = "NaN" \/ y.k = "NaN" -> NaN
          [] x.k = "Infinity" \/ y.k = "Infinity" ->
                IF x.v = 0 \/ y.v = 0 THEN NaN
                ELSE Inf(IF (x.v < 0) = (y.v < 0) THEN 1 ELSE -1)
          [] OTHER -> Rat(x.v * y.v, x.d * y.d)

\* a > b and a < b: false as soon as an operand is NaN
JsGt(a, b) ==
    LET x == ToNumber(a)
        y == ToNumber(b)
    IN  CASE x.k = "NaN" \/ y.k = "NaN" -> FALSE
          [] x.k = "Infinity" /\ y.k = "Infinity" -> x.v > y.v
          [] x.k = "Infinity" -> x.v > 0
          [] y.k = "Infinity" -> y.v < 0
          [] OTHER -> x.v * y.d > y.v * x.d

JsLt(a, b) == JsGt(b, a)

\* a !== b: NaN differs from everything, itself included
StrictNeq(a, b) == a.k = "NaN" \/ b.k = "NaN" \/ a # b

\* truthiness of a scalar: 0, NaN, null and undefined are falsy
Truthy(x) ==
    CASE x.k = "num" -> x.v # 0
      [] x.k = "Infinity" -> TRUE
      [] x.k = "str" -> TRUE
      [] OTHER -> FALSE

\* x || 0
OrZero(x) == IF Truthy(x) THEN x ELSE Num(0)

(***************************************************************************)
(* Constants of the source.                                                *)
(***************************************************************************)
GREEN == "#22C55E"
RED == "#EF4444"
NoColor == "null"

NoError == "null"
MsgMarketData == "Market data not available"
MsgNoHistory == "No historical data available"
MsgInvalidCall == "Invalid API call or symbol not found"
MsgRateLimit == "API call frequency limit reached"
MsgNoSeries == "No time series data available"
MsgNoGemini == "No Gemini data available"
MsgNoChart == "No chart data available"
MsgFallback == "Failed to fetch data"
\* messages the runtime writes, not the source
MsgNetwork == "runtime: Network request failed"
MsgSyntax == "runtime: JSON Parse error"
MsgTypeError == "runtime: TypeError"
RuntimeMessages == {MsgNetwork, MsgSyntax, MsgTypeError}

Screens == {"detailed", "chart", "simple", "self", "equity"}
Intervals == {"1D", "1W", "1M", "1Y", "ALL"}
\* the screens whose component declares an error cell
HasErrorCell(s) == s # "simple"

\* the period of the screen's setInterval, in ms
PollPeriod(s) ==
    CASE s = "simple" -> 30000
      [] s = "equity" -> 300000
      [] OTHER -> 120000

\* the retry notice of the screen's error panel ("" where there is no panel)
\* and the delay it announces, in ms
RetryText(s) ==
    CASE s = "simple" -> ""
      [] s = "equity" -> "Retrying in 60 seconds..."
      [] OTHER -> "Retrying in 2 minutes..."
NoticeMs(text) ==
    CASE text = "Retrying in 60 seconds..." -> 60 * 1000
      [] text = "Retrying in 2 minutes..." -> 2 * 60 * 1000
      [] OTHER -> 0

\* if (error) return <error panel>: the panel replaces the content
ErrorPanelShown == HasErrorCell(screen) /\ error # NoError

(***************************************************************************)
(* Upstream responses.  A request is rejected by the network, answers a    *)
(* body that response.json() cannot parse, or answers a JSON body.  A body *)
(* is described by which keys it has and what they hold.                   *)
(***************************************************************************)
Reject == [kind |-> "reject"]
BadJson == [kind |-> "badjson"]
Json(b) == [kind |-> "json", body |-> b]

Prices == 1..MaxPrice

\* GET /simple/price: { bitcoin: { usd } }
SimpleBodies ==
    {[has_bitcoin |-> FALSE, usd |-> Undef], [has_bitcoin |-> TRUE, usd |-> Undef]}
    \cup {[has_bitcoin |-> TRUE, usd |-> Num(p)] : p \in Prices}

\* GET /coins/bitcoin: { market_data: { current_price: {usd}, price_change_24h,
\* price_change_percentage_24h, high_24h: {usd}, low_24h, total_volume, market_cap } }
\* The 24h high is twice the price and the low is the price; a body without
\* a usd price has no usd high or low either (JSON holds no NaN).
DetailedBody(md, cp, usd, ch, pct, st) ==
    [has_market_data |-> md, has_current_price |-> cp, usd |-> usd,
     price_change_24h |-> ch, price_change_percentage_24h |-> pct,
     has_stats |-> st,
     high |-> IF usd.k = "num" THEN JsMul(usd, Num(2)) ELSE usd, low |-> usd,
     volume |-> Num(7), cap |-> Num(9)]

\* (price_change_24h, price_change_percentage_24h) as the provider may send them
ChangePairs(p) ==
    {<<Undef, Undef>>, <<Num(1), Rat(100, p + 1)>>, <<Num(1), Undef>>,
     <<Num(0 - 1), Num(5)>>}

DetailedBodies ==
    {DetailedBody(FALSE, FALSE, Undef, Undef, Undef, FALSE),
     DetailedBody(TRUE, FALSE, Undef, Undef, Undef, TRUE),
     DetailedBody(TRUE, TRUE, Undef, Undef, Undef, TRUE)}
    \cup {DetailedBody(TRUE, TRUE, Num(p), Undef, Undef, FALSE) : p \in Prices}
    \cup {DetailedBody(TRUE, TRUE, Num(p), c[1], c[2], TRUE) :
            p \in Prices, c \in UNION {ChangePairs(q) : q \in Prices}}

\* the detailed bodies offered to the chart screen, whose price routine is the
\* same code as the detailed screen's
DetailedBodiesLite ==
    {DetailedBody(TRUE, TRUE, Num(p), Num(1), Num(5), TRUE) : p \in Prices}

\* GET /coins/bitcoin/market_chart: { prices: [[ts, price], ...], market_caps,
\* total_volumes }, ascending by timestamp.  A series is named by its length
\* and shape; every shape gives pairwise different prices.
Shapes == {"up", "zig"}
\* a falling series, for the 24h window of the self-derived routine
WindowShapes == Shapes \cup {"down"}
\* two more shapes for the snapshot arithmetic: "dip" starts at zero, "year"
\* runs 30000, 60000, ...
SnapshotShapes == Shapes \cup {"dip", "year"}
SeriesPrice(shape, i) ==
    CASE shape = "up" -> i
      [] shape = "dip" -> i - 1
      [] shape = "year" -> 30000 * i
      [] shape = "down" -> 1000 - i
      [] OTHER -> 2 * i + 5 * (i % 2)
Series(L, shape) == [i \in 1..L |-> <<i, Num(SeriesPrice(shape, i))>>]

MarketChartBody(hp, L, shape, aux) ==
    [has_prices |-> hp, prices |-> Series(L, shape),
     has_aux |-> aux,
     market_caps |-> IF aux THEN [i \in 1..L |-> <<i, Num(9)>>] ELSE <<>>,
     total_volumes |-> IF aux THEN [i \in 1..L |-> <<i, Num(7)>>] ELSE <<>>]

MarketChartBodiesUpTo(n) ==
    {MarketChartBody(FALSE, 0, "up", FALSE)}
    \cup {MarketChartBody(TRUE, L, s, a) :
            L \in 0..n, s \in Shapes, a \in BOOLEAN}

\* the bodies offered to the self-derived routine
MarketChartBodies == MarketChartBodiesUpTo(MaxLen)

\* the bodies offered where the published record is studied
SnapshotChartBodies ==
    MarketChartBodies
    \cup {MarketChartBody(TRUE, L, sh, TRUE) : L \in 1..MaxLen, sh \in SnapshotShapes}

\* the bodies offered to a routine that reads only prices: the second request
\* of the detailed routine
YearlyBodies == {b \in MarketChartBodies : b.has_aux \/ ~b.has_prices}

\* the bodies offered to fetchChartData when the chart routine is studied
ChartBodies ==
    {MarketChartBody(FALSE, 0, "zig", FALSE)}
    \cup {MarketChartBody(TRUE, L, "zig", TRUE) : L \in 0..MaxChartLen}

\* the bodies offered to the chart screen next to its price routine
YearlyBodiesLite == {MarketChartBody(TRUE, 1, "up", TRUE)}
ChartBodiesLite == {MarketChartBody(TRUE, MaxLen, "zig", TRUE)}

\* GET /v2/ticker/btcusd: { changes: [price string, ...] }, newest first
GeminiBody(hc, L, shape, bad) ==
    [has_changes |-> hc,
     changes |-> [j \in 1..L |->
                    IF bad /\ j = 1 THEN Garbage
                    ELSE Str(SeriesPrice(shape, L + 1 - j))]]

GeminiBodies ==
    {GeminiBody(FALSE, 0, "zig", FALSE), GeminiBody(TRUE, MaxChartLen, "zig", TRUE)}
    \cup {GeminiBody(TRUE, L, "zig", FALSE) : L \in 0..MaxChartLen}

GeminiBodiesLite == {GeminiBody(TRUE, MaxLen, "up", FALSE)}

\* GET /query?function=TIME_SERIES_DAILY: { "Meta Data": {...},
\* "Time Series (Daily)": { date: {"1. open", ..., "5. volume"} } }, newest
\* date first, or a soft error { "Error Message" } / { "Note" }
Day(c) == [has_fields |-> TRUE, open |-> Str(c + 1), high |-> Str(c + 2),
           low |-> Str(c), close |-> Str(c), volume |-> Str(1000)]
BlankDay == [has_fields |-> FALSE, open |-> Undef, high |-> Undef,
             low |-> Undef, close |-> Undef, volume |-> Undef]

RECURSIVE DaySeqs(_)
DaySeqs(n) ==
    IF n = 0 THEN {<<>>}
    ELSE LET shorter == DaySeqs(n - 1)
         IN  shorter \cup
             {<<d>> \o s : d \in {Day(c) : c \in Prices} \cup {BlankDay},
                           s \in {t \in shorter : Len(t) = n - 1}}

EquityBody(em, note, meta, hs, days) ==
    [has_error_message |-> em, has_note |-> note, has_meta |-> meta,
     has_series |-> hs, days |-> days]

\* soft-error bodies, with and without a series beside the error key, and the
\* bodies without a soft error
EquityBodies ==
    {EquityBody(em, note, TRUE, hs, IF hs THEN <<Day(1)>> ELSE <<>>) :
        em \in BOOLEAN, note \in BOOLEAN, hs \in BOOLEAN}
    \cup {EquityBody(FALSE, FALSE, meta, FALSE, <<>>) : meta \in BOOLEAN}
    \cup {EquityBody(FALSE, FALSE, meta, TRUE, days) :
            meta \in BOOLEAN, days \in DaySeqs(MaxDays)}

\* the equity bodies offered where the published record is studied: also a
\* previous day that closed at zero
SnapshotEquityBodies ==
    EquityBodies
    \cup {EquityBody(FALSE, FALSE, TRUE, TRUE, <<Day(c), Day(0)>>) : c \in Prices}

Responses(bodies) == {Reject, BadJson} \cup {Json(b) : b \in bodies}
ResponsesLite(bodies) == {Reject} \cup {Json(b) : b \in bodies}

(***************************************************************************)
(* The try blocks of the routines, as functions of the response: either    *)
(* the values the block computes or the error it throws.                   *)
(***************************************************************************)
Throw(m) == [thrown |-> TRUE, isError |-> TRUE, message |-> m]
NotThrown == [thrown |-> FALSE, isError |-> FALSE, message |-> ""]

\* await fetch(url); await response.json()
Await(resp) ==
    CASE resp.kind = "reject" -> Throw(MsgNetwork)
      [] resp.kind = "badjson" -> Throw(MsgSyntax)
      [] OTHER -> NotThrown

\* the message that the catch clause stores
CatchMessage(e) == IF e.isError THEN e.message ELSE MsgFallback

\* a catch clause that lets the runtime's own errors through
CaughtDeclaredOnly(e) == e.message \notin RuntimeMessages

\* catch (error) { ... } has no filter: it catches whatever the try block throws
Caught(e) == TRUE

\* "Compare with previous price and set color": the colour to set ("keep" for
\* none) and whether the 2-second clear is scheduled
PriceDelta(held, newPrice) ==
    IF held.k # "null" /\ StrictNeq(newPrice, held)
    THEN [color |-> IF JsGt(newPrice, held) THEN GREEN
                    ELSE IF JsLt(newPrice, held) THEN RED ELSE "keep",
          timer |-> TRUE]
    ELSE [color |-> "keep", timer |-> FALSE]

NoPerf == Null

\* fetchBitcoinPrice: the try block
SimpleTry(resp) ==
    LET b == resp.body
    IN  CASE Await(resp).thrown -> [err |-> Await(resp), newPrice |-> Undef, data |-> NoPerf]
          [] ~b.has_bitcoin -> [err |-> Throw(MsgTypeError), newPrice |-> Undef, data |-> NoPerf]
          [] OTHER -> [err |-> NotThrown, newPrice |-> b.usd, data |-> NoPerf]

\* fetchBitcoinData (detailed strategy): from the first response to the
\* second request
DetailedFirst(resp) ==
    LET b == resp.body
        none == [newPrice |-> Undef, priceChange |-> Undef, priceChangePercent |-> Undef,
                 high24h |-> Undef, low24h |-> Undef, volume24h |-> Undef,
                 marketCap |-> Undef]
    IN  CASE Await(resp).thrown -> [err |-> Await(resp), mid |-> none]
          [] ~b.has_market_data -> [err |-> Throw(MsgMarketData), mid |-> none]
          [] ~b.has_current_price -> [err |-> Throw(MsgTypeError), mid |-> none]
          [] ~b.has_stats -> [err |-> Throw(MsgTypeError), mid |-> none]
          [] OTHER ->
                [err |-> NotThrown,
                 mid |-> [newPrice |-> b.usd,
                          priceChange |-> OrZero(b.price_change_24h),
                          priceChangePercent |-> OrZero(b.price_change_percentage_24h),
                          high24h |-> b.high, low24h |-> b.low,
                          volume24h |-> b.volume, marketCap |-> b.cap]]

\* a yearly figure measured against the newest point
PriceOfLastPoint(prices) == prices[Len(prices)][2]

\* yearlyData.prices[0][1]: "first price point is ~1 year ago"
PriceOneYearAgo(prices) == prices[1][2]

\* fetchBitcoinData (detailed strategy): from the second response on
DetailedSecond(resp, mid) ==
    LET b == resp.body
        priceOneYearAgo == PriceOneYearAgo(b.prices)
        yearlyChange == JsSub(mid.newPrice, priceOneYearAgo)
        yearlyChangePercent == JsMul(JsDiv(yearlyChange, priceOneYearAgo), Num(100))
    IN  CASE Await(resp).thrown ->
                [err |-> Await(resp), newPrice |-> Undef, data |-> NoPerf]
          [] ~b.has_prices \/ Len(b.prices) = 0 ->
                [err |-> Throw(MsgNoHistory), newPrice |-> Undef, data |-> NoPerf]
          [] OTHER ->
                [err |-> NotThrown, newPrice |-> mid.newPrice,
                 data |-> [currentPrice |-> mid.newPrice,
                           previousPrice |-> JsSub(mid.newPrice, mid.priceChange),
                           priceChange |-> mid.priceChange,
                           priceChangePercent |-> mid.priceChangePercent,
                           high24h |-> mid.high24h, low24h |-> mid.low24h,
                           volume24h |-> mid.volume24h, marketCap |-> mid.marketCap,
                           yearlyChange |-> yearlyChange,
                           yearlyChangePercent |-> yearlyChangePercent,
                           priceOneYearAgo |-> priceOneYearAgo]]

\* prices.slice(-48): the number of trailing points taken for the 24h window
Window == 48

\* Math.max(a, b) and Math.min(a, b): NaN as soon as an operand is NaN
Max2(a, b) ==
    IF ToNumber(a).k = "NaN" \/ ToNumber(b).k = "NaN" THEN NaN
    ELSE IF JsGt(a, b) THEN ToNumber(a) ELSE ToNumber(b)
Min2(a, b) ==
    IF ToNumber(a).k = "NaN" \/ ToNumber(b).k = "NaN" THEN NaN
    ELSE IF JsLt(a, b) THEN ToNumber(a) ELSE ToNumber(b)

\* Math.max(...s) and Math.min(...s) of a non-empty array, folded by halves
RECURSIVE SeqMax(_)
SeqMax(s) ==
    IF Len(s) = 1 THEN ToNumber(s[1])
    ELSE LET h == Len(s) \div 2
         IN  Max2(SeqMax(SubSeq(s, 1, h)), SeqMax(SubSeq(s, h + 1, Len(s))))

RECURSIVE SeqMin(_)
SeqMin(s) ==
    IF Len(s) = 1 THEN ToNumber(s[1])
    ELSE LET h == Len(s) \div 2
         IN  Min2(SeqMin(SubSeq(s, 1, h)), SeqMin(SubSeq(s, h + 1, Len(s))))

\* arr.slice(0, n): the leading points
SliceFirst(arr, n) ==
    IF Len(arr) <= n THEN arr ELSE SubSeq(arr, 1, n)

\* arr.slice(-n)
SliceLast(arr, n) ==
    IF Len(arr) <= n THEN arr ELSE SubSeq(arr, Len(arr) - n + 1, Len(arr))

\* fetchBitcoinData (self-derived strategy): the try block
SelfTry(resp) ==
    LET b == resp.body
        prices == b.prices
        L == Len(prices)
        newPrice == prices[L][2]
        last24hPrices == [i \in 1..Len(SliceLast(prices, Window)) |->
                            SliceLast(prices, Window)[i][2]]
        previousPriceValue ==
            IF L > Window THEN prices[L - Window + 1][2] ELSE prices[L - 1][2]
        priceChange == JsSub(newPrice, previousPriceValue)
        priceChangePercent == JsMul(JsDiv(priceChange, previousPriceValue), Num(100))
        priceOneYearAgo == PriceOneYearAgo(prices)
        yearlyChange == JsSub(newPrice, priceOneYearAgo)
        yearlyChangePercent == JsMul(JsDiv(yearlyChange, priceOneYearAgo), Num(100))
    IN  CASE Await(resp).thrown ->
                [err |-> Await(resp), newPrice |-> Undef, data |-> NoPerf]
          [] ~b.has_prices \/ L = 0 ->
                [err |-> Throw(MsgNoHistory), newPrice |-> Undef, data |-> NoPerf]
          [] L = 1 ->       \* prices[prices.length - 2] is undefined
                [err |-> Throw(MsgTypeError), newPrice |-> Undef, data |-> NoPerf]
          [] ~b.has_aux -> \* marketCaps is undefined
                [err |-> Throw(MsgTypeError), newPrice |-> Undef, data |-> NoPerf]
          [] OTHER ->
                [err |-> NotThrown, newPrice |-> newPrice,
                 data |-> [currentPrice |-> newPrice,
                           previousPrice |-> previousPriceValue,
                           priceChange |-> priceChange,
                           priceChangePercent |-> priceChangePercent,
                           high24h |-> SeqMax(last24hPrices),
                           low24h |-> SeqMin(last24hPrices),
                           volume24h |-> b.total_volumes[Len(b.total_volumes)][2],
                           marketCap |-> b.market_caps[Len(b.market_caps)][2],
                           yearlyChange |-> yearlyChange,
                           yearlyChangePercent |-> yearlyChangePercent,
                           priceOneYearAgo |-> priceOneYearAgo]]

\* a soft-error check that forgets the "Note" key
SoftErrorNoNote(b) == IF b.has_error_message THEN MsgInvalidCall ELSE ""

\* "Check if API returned an error": the message of the soft error a body
\* carries, "" when it carries none
SoftError(b) ==
    IF b.has_error_message THEN MsgInvalidCall
    ELSE IF b.has_note THEN MsgRateLimit
    ELSE ""

\* fetchMSTRData: the try block.  parsed tells whether the block got as far as
\* parseFloat on the series
EquityTry(resp) ==
    LET b == resp.body
        days == b.days
        latestData == days[1]
        hasPrevious == Len(days) >= 2
        currentPrice == ParseFloat(latestData.close)
        previousClose == IF hasPrevious THEN ParseFloat(days[2].close)
                         ELSE ParseFloat(latestData.open)
        priceChange == JsSub(currentPrice, previousClose)
        priceChangePercent == JsMul(JsDiv(priceChange, previousClose), Num(100))
        fail(e, p) == [err |-> e, newPrice |-> Undef, data |-> NoPerf, parsed |-> p]
    IN  CASE Await(resp).thrown -> fail(Await(resp), FALSE)
          [] SoftError(b) # "" -> fail(Throw(SoftError(b)), FALSE)
          [] ~b.has_series -> fail(Throw(MsgNoSeries), FALSE)
          [] Len(days) = 0 -> fail(Throw(MsgTypeError), FALSE)  \* latestData is undefined
          [] ~b.has_meta -> fail(Throw(MsgTypeError), TRUE)     \* data['Meta Data'] is undefined
          [] OTHER ->
                [err |-> NotThrown, newPrice |-> currentPrice, parsed |-> TRUE,
                 data |-> [symbol |-> "MSTR", price |-> currentPrice,
                           open |-> ParseFloat(latestData.open),
                           high |-> ParseFloat(latestData.high),
                           low |-> ParseFloat(latestData.low),
                           volume |-> latestData.volume,
                           lastRefreshed |-> "meta",
                           priceChange |-> priceChange,
                           priceChangePercent |-> priceChangePercent]]

(***************************************************************************)
(* fetchChartData.                                                         *)
(***************************************************************************)
NoChart == Null

Reverse(s) == [i \in 1..Len(s) |-> s[Len(s) + 1 - i]]

\* a division that rounds down where the source rounds up
Floor(a, b) == a \div b

\* Math.ceil(a / b), for a >= 0 and b > 0
Ceil(a, b) == (a + b - 1) \div b
Max(a, b) == IF a > b THEN a ELSE b

\* the number of display points each span aims at
Target(interval) ==
    CASE interval = "1D" -> 12
      [] interval = "1W" -> 10
      [] interval = "1M" -> 8
      [] interval = "1Y" -> 12
      [] OTHER -> 15

\* the indices (from 1) that filter((_, index) => index % step === 0) keeps
RECURSIVE KeptFrom(_, _, _)
KeptFrom(i, L, step) ==
    IF i > L THEN <<>>
    ELSE IF (i - 1) % step = 0 THEN <<i>> \o KeptFrom(i + 1, L, step)
    ELSE KeptFrom(i + 1, L, step)

\* step = Math.max(1, Math.ceil(length / target)); keep every step-th point
Downsample(points, target) ==
    LET step == Max(1, Ceil(Len(points), target))
        kept == KeptFrom(1, Len(points), step)
    IN  [k \in 1..Len(kept) |-> points[kept[k]]]

\* the label of hour index (0 is the oldest) of the hourly ticker
GeminiLabel(index) ==
    LET hoursAgo == 23 - index
    IN  IF hoursAgo = 0 THEN "Now"
        ELSE IF hoursAgo % 6 = 0 THEN ToString(hoursAgo) \o "h"
        ELSE ""

\* the label of a timestamp (in hours): time of day for 1D, month and day for
\* 1W and 1M, month and year for 1Y, the year for ALL
DateLabel(interval, ts) ==
    CASE interval = "1D" -> "hh:mm " \o ToString(ts % 24)
      [] interval \in {"1W", "1M"} -> "Mon d " \o ToString(ts \div 24)
      [] interval = "1Y" -> "Mon yy " \o ToString(ts \div 720)
      [] OTHER -> "yyyy " \o ToString(ts \div 8760)

Chart(labels, data) == [labels |-> labels, datasets |-> <<[data |-> data]>>]

\* a 1D branch that charts the ticker's list as it arrives, newest first
NotReversed(changes) == changes

\* data.changes.reverse(): "Make it ascending (oldest to newest)"
Ascending(changes) == Reverse(changes)

\* a test that takes any list, also an empty one
GeminiWinsIfPresent(b) == b.has_changes

\* if (data.changes && data.changes.length > 0)
GeminiWins(b) == b.has_changes /\ Len(b.changes) > 0

\* the inner try block of the 1D branch: the hourly ticker
GeminiTry(resp) ==
    LET b == resp.body
        prices == Ascending(b.changes)
    IN  CASE Await(resp).thrown -> [err |-> Await(resp), chart |-> NoChart]
          [] ~GeminiWins(b) ->
                [err |-> Throw(MsgNoGemini), chart |-> NoChart]
          [] OTHER ->
                [err |-> NotThrown,
                 chart |-> Chart([i \in 1..Len(prices) |-> GeminiLabel(i - 1)],
                                 [i \in 1..Len(prices) |-> ParseFloat(prices[i])])]

\* the market_chart branch: the 1D fallback and the other spans
PrimaryTry(resp, interval) ==
    LET b == resp.body
        processedPrices == Downsample(b.prices, Target(interval))
    IN  CASE Await(resp).thrown -> [err |-> Await(resp), chart |-> NoChart]
          [] ~b.has_prices \/ Len(b.prices) = 0 ->
                [err |-> Throw(MsgNoChart), chart |-> NoChart]
          [] OTHER ->
                [err |-> NotThrown,
                 chart |-> Chart([i \in 1..Len(processedPrices) |->
                                    DateLabel(interval, processedPrices[i][1])],
                                 [i \in 1..Len(processedPrices) |->
                                    processedPrices[i][2]])]

(***************************************************************************)
(* The screens as state machines.                                          *)
(***************************************************************************)
NoMid == [newPrice |-> Undef, priceChange |-> Undef, priceChangePercent |-> Undef,
          high24h |-> Undef, low24h |-> Undef, volume24h |-> Undef,
          marketCap |-> Undef]

\* an invocation of a routine: its arguments, the await it is suspended at
\* (stage) and the locals it holds across that await
Call(routine, initial, interval) ==
    [routine |-> routine, initial |-> initial, stage |-> 1,
     interval |-> interval, mid |-> NoMid]

Pending == BagToSet(calls)
Started(cs) == calls (+) cs
Resumed(c, next) == (calls (-) SetToBag({c})) (+) next

\* the price on display before a step: the one the last successful fetch published
Shown == IF screen = "equity"
         THEN (IF mstrData = Null THEN Null ELSE mstrData.price)
         ELSE price

Observed(act, c, resp, outcome, err, newPrice, parsed) ==
    [act |-> act, routine |-> c.routine, initial |-> c.initial,
     stage |-> c.stage, interval |-> c.interval, resp |-> resp,
     outcome |-> outcome, shown |-> Shown, newPrice |-> newPrice,
     message |-> err.message, parsed |-> parsed, frames |-> <<>>]

NoCall == Call("none", FALSE, "1D")
Idle(act) == Observed(act, NoCall, Reject, "none", NotThrown, Undef, FALSE)

Init ==
    /\ screen \in Screens
    /\ phase = "rendered"
    /\ price = Null
    /\ previousPrice = Null
    /\ loading = TRUE
    /\ lastUpdated = Null
    /\ priceColor = NoColor
    /\ performanceData = NoPerf
    /\ error = NoError
    /\ mstrData = Null
    /\ chartData = NoChart
    /\ selectedInterval = "1D"
    /\ chartLoading = FALSE
    /\ closure = [price |-> Null, previousPrice |-> Null, selectedInterval |-> "1D"]
    /\ intervalTimer = FALSE
    /\ flashTimers = 0
    /\ calls = EmptyBag
    /\ nStarted = 0
    /\ nTicks = 0
    /\ nSwitches = 0
    /\ effectPending = FALSE
    /\ chartSource = <<>>
    /\ clock = 0
    /\ last = Idle("init")

\* a routine that shows the loading indicator on every invocation
StartLoadingAlways(initial) == TRUE

\* if (isInitialLoad) setLoading(true)
StartLoading(initial) == IF initial THEN TRUE ELSE loading

\* the synchronous prefix of a price routine: setLoading(true) on the initial
\* load, setError(null) where the screen has an error cell
StartPrice(initial) ==
    /\ loading' = StartLoading(initial)
    /\ error' = IF HasErrorCell(screen) THEN NoError ELSE error

\* the effects of the first commit: the mount effect starts the initial price
\* fetch (and, on the chart screen, a chart fetch) and the periodic timer; the
\* chart screen's interval effect starts a chart fetch of its own
MountEffect ==
    /\ phase = "rendered"
    /\ phase' = "mounted"
    /\ closure' = [price |-> price, previousPrice |-> previousPrice,
                   selectedInterval |-> selectedInterval]
    /\ StartPrice(TRUE)
    /\ intervalTimer' = TRUE
    /\ IF screen = "chart"
       THEN /\ calls' = Started(SetToBag({Call("price", TRUE, "1D")})
                                (+) SetToBag({Call("chart", FALSE, selectedInterval)})
                                (+) SetToBag({Call("chart", FALSE, selectedInterval)}))
            /\ nStarted' = nStarted + 3
            /\ chartLoading' = TRUE
       ELSE /\ calls' = Started(SetToBag({Call("price", TRUE, "1D")}))
            /\ nStarted' = nStarted + 1
            /\ chartLoading' = chartLoading
    /\ last' = Idle("mount")
    /\ UNCHANGED << screen, price, previousPrice, lastUpdated, priceColor,
                    performanceData, mstrData, chartData, selectedInterval,
                    flashTimers, nTicks, nSwitches, effectPending, chartSource, clock >>

\* the interval the timer callback passes to fetchChartData
TickInterval == closure.selectedInterval

\* the setInterval callback, fired at most n times
TickUpTo(n) ==
    /\ intervalTimer
    /\ nTicks < n
    /\ nTicks' = nTicks + 1
    /\ StartPrice(FALSE)
    /\ IF screen = "chart"
       THEN /\ calls' = Started(SetToBag({Call("price", FALSE, "1D")})
                                (+) SetToBag({Call("chart", FALSE, TickInterval)}))
            /\ nStarted' = nStarted + 2
            /\ chartLoading' = TRUE
       ELSE /\ calls' = Started(SetToBag({Call("price", FALSE, "1D")}))
            /\ nStarted' = nStarted + 1
            /\ chartLoading' = chartLoading
    /\ last' = Idle("tick")
    /\ UNCHANGED << screen, phase, price, previousPrice, lastUpdated, priceColor,
                    performanceData, mstrData, chartData, selectedInterval, closure,
                    intervalTimer, flashTimers, nSwitches, effectPending, chartSource, clock >>

Tick == TickUpTo(MaxTicks)

\* an effect without cleanup: the timer stays live
LeakedTimer == TRUE

\* what the cleanup of the mount effect leaves of the timer: clearInterval
CleanupTimer == FALSE

\* the screen is torn down: the cleanup of the mount effect runs
Unmount ==
    /\ phase = "mounted"
    /\ phase' = "unmounted"
    /\ intervalTimer' = CleanupTimer
    /\ effectPending' = FALSE      \* no effect of an unmounted component runs
    /\ last' = Idle("unmount")
    /\ UNCHANGED << screen, price, previousPrice, loading, lastUpdated, priceColor,
                    performanceData, error, mstrData, chartData, selectedInterval,
                    chartLoading, closure, flashTimers, calls, nStarted, nTicks,
                    nSwitches, chartSource, clock >>

\* fetchChartData(selectedInterval) as the interval effect calls it, n times
EffectCalls(n, i) ==
    IF n = 0 THEN EmptyBag
    ELSE [c \in {Call("chart", FALSE, i)} |-> n]

\* onPress of an interval button: setSelectedInterval(interval).  The buttons
\* are part of the content view: while error is set the component returns
\* the error panel alone and there is no button to press.  A press of the
\* selected interval renders nothing.  The re-render of another interval
\* schedules the interval effect; the root either runs it inside the task of
\* the press or defers it to a task of its own.  An effect still pending from
\* the press before runs ahead of the re-render.
SelectInterval(i) ==
    /\ screen = "chart"
    /\ phase = "mounted"
    /\ ~ErrorPanelShown
    /\ nSwitches < MaxSwitches
    /\ nSwitches' = nSwitches + 1
    /\ selectedInterval' = i
    /\ IF i # selectedInterval
       THEN \E deferred \in BOOLEAN :
               LET flushed == IF effectPending THEN 1 ELSE 0
                   inside  == IF deferred THEN 0 ELSE 1
               IN  /\ effectPending' = deferred
                   /\ calls' = Started(EffectCalls(flushed, selectedInterval)
                                       (+) EffectCalls(inside, i))
                   /\ nStarted' = nStarted + flushed + inside
                   /\ chartLoading' = IF flushed + inside > 0 THEN TRUE
                                      ELSE chartLoading
       ELSE UNCHANGED << calls, nStarted, chartLoading, effectPending >>
    /\ last' = Idle("select")
    /\ UNCHANGED << screen, phase, price, previousPrice, loading, lastUpdated,
                    priceColor, performanceData, error, mstrData, chartData, closure,
                    intervalTimer, flashTimers, nTicks, chartSource, clock >>

\* useEffect(() => { fetchChartData(selectedInterval) }, [selectedInterval]),
\* run on a task of its own after the press that changed the selection: a
\* timer tick or a response may have run in between.  It does not run once
\* the component is unmounted.
IntervalEffect ==
    /\ screen = "chart"
    /\ phase = "mounted"
    /\ effectPending
    /\ effectPending' = FALSE
    /\ calls' = Started(EffectCalls(1, selectedInterval))
    /\ nStarted' = nStarted + 1
    /\ chartLoading' = TRUE
    /\ last' = Idle("effect")
    /\ UNCHANGED << screen, phase, price, previousPrice, loading, lastUpdated,
                    priceColor, performanceData, error, mstrData, chartData,
                    selectedInterval, closure, intervalTimer, flashTimers, nTicks,
                    nSwitches, chartSource, clock >>

(***************************************************************************)
(* The resumptions of the price routines.                                  *)
(***************************************************************************)
\* finally { if (isInitialLoad) setLoading(false) }
FinallyLoading(initial) == IF initial THEN FALSE ELSE loading

\* the price the routine compares the new price with: the cell as the routine
\* captured by the mount effect sees it
Held == IF screen = "equity" THEN closure.previousPrice ELSE closure.price

\* how a try block that ended with result r leaves the routine
PriceOutcome(r) ==
    IF ~r.err.thrown THEN "published"
    ELSE IF ~Caught(r.err) THEN "uncaught"
    ELSE IF HasErrorCell(screen) THEN "error"
    ELSE "logged"

\* a snapshot patched in place: the new figures under the old current price
SnapshotPatched(old, data) ==
    IF old = NoPerf THEN data ELSE [data EXCEPT !.currentPrice = old.currentPrice]

\* setPerformanceData({...}): the snapshot cell after a publication is the
\* object the fetch built, whatever it held before
SnapshotReplaced(old, data) == data

\* a catch clause that blanks the price, as the chart's catch blanks the chart
PriceClearedOnCatch(old) == Null

\* catch (error) { console.error(...); setError(...) }: the catch clause of a
\* price routine writes no cell but error, so the price stays what it was
PriceAfterCatch(old) == old

\* what a render shows of the price record
View(p, pp, pd, md, lu) ==
    [price |-> p, previousPrice |-> pp, performanceData |-> pd,
     mstrData |-> md, lastUpdated |-> lu]

\* the views after each setter of a publication, in the order of the calls:
\* setPreviousPrice(price); setPrice(newPrice); setPerformanceData(...);
\* setLastUpdated(new Date()) on the Bitcoin screens (no setPerformanceData on
\* the simple one), setPreviousPrice(currentPrice); setMstrData(...);
\* setLastUpdated(new Date()) on the equity screen
ViewsAfterSetters(r, now) ==
    LET pd == SnapshotReplaced(performanceData, r.data)
    IN  IF screen = "equity"
        THEN << View(price, r.newPrice, performanceData, mstrData, lastUpdated),
                View(price, r.newPrice, performanceData, r.data, lastUpdated),
                View(price, r.newPrice, performanceData, r.data, now) >>
        ELSE IF screen = "simple"
        THEN << View(price, closure.price, performanceData, mstrData, lastUpdated),
                View(r.newPrice, closure.price, performanceData, mstrData, lastUpdated),
                View(r.newPrice, closure.price, performanceData, mstrData, now) >>
        ELSE << View(price, closure.price, performanceData, mstrData, lastUpdated),
                View(r.newPrice, closure.price, performanceData, mstrData, lastUpdated),
                View(r.newPrice, closure.price, pd, mstrData, lastUpdated),
                View(r.newPrice, closure.price, pd, mstrData, now) >>

\* the views that are rendered while the setters of a publication run.  The
\* setters are separate calls made after an await.  A root that batches
\* updates renders once, after the last of them; a root that does not
\* renders after each.  Which root the build mounts is not settled by the
\* source, so both are possible.
RenderedViews(batched, r, now) ==
    LET views == ViewsAfterSetters(r, now)
    IN  IF batched THEN << views[Len(views)] >> ELSE views

\* the end of a price routine: the tail of the try block when nothing was
\* thrown, else the catch clause; then the finally clause
Finish(c, resp, r, parsed) ==
    LET delta == PriceDelta(Held, r.newPrice)
        out == PriceOutcome(r)
    IN  /\ calls' = Resumed(c, EmptyBag)
        /\ loading' = FinallyLoading(c.initial)
        /\ IF out = "published"
           THEN /\ priceColor' = IF delta.color = "keep" THEN priceColor ELSE delta.color
                /\ flashTimers' = flashTimers + (IF delta.timer THEN 1 ELSE 0)
                /\ clock' = clock + 1
                /\ lastUpdated' = Num(clock + 1)
                /\ IF screen = "equity"
                   THEN /\ previousPrice' = r.newPrice
                        /\ mstrData' = r.data
                        /\ UNCHANGED << price, performanceData >>
                   ELSE /\ previousPrice' = closure.price
                        /\ price' = r.newPrice
                        /\ performanceData' =
                              IF screen = "simple" THEN performanceData
                              ELSE SnapshotReplaced(performanceData, r.data)
                        /\ UNCHANGED mstrData
                /\ UNCHANGED error
           ELSE /\ error' = IF out = "error" THEN CatchMessage(r.err) ELSE error
                /\ price' = PriceAfterCatch(price)
                /\ UNCHANGED << previousPrice, lastUpdated, priceColor,
                                performanceData, mstrData, flashTimers, clock >>
        /\ \E batched \in BOOLEAN :
              last' = [Observed("settle", c, resp, out, r.err, r.newPrice, parsed)
                         EXCEPT !.frames = IF out = "published" /\ phase = "mounted"
                                           THEN RenderedViews(batched, r, Num(clock + 1))
                                           ELSE << >>]
        /\ UNCHANGED << screen, phase, chartData, selectedInterval, chartLoading,
                        closure, intervalTimer, nStarted, nTicks, nSwitches, effectPending,
                        chartSource >>

\* fetchBitcoinPrice resumes with the response of /simple/price
SimpleResponse(c, resp) ==
    /\ screen = "simple"
    /\ c.routine = "price"
    /\ Finish(c, resp, SimpleTry(resp), FALSE)

\* fetchBitcoinData (self-derived) resumes with the response of market_chart
SelfResponse(c, resp) ==
    /\ screen = "self"
    /\ c.routine = "price"
    /\ Finish(c, resp, SelfTry(resp), FALSE)

\* fetchMSTRData resumes with the response of TIME_SERIES_DAILY
EquityResponse(c, resp) ==
    /\ screen = "equity"
    /\ c.routine = "price"
    /\ Finish(c, resp, EquityTry(resp), EquityTry(resp).parsed)

\* fetchBitcoinData (detailed) resumes with the response of /coins/bitcoin:
\* it ends in the catch clause or issues the market_chart request
DetailedFirstResponse(c, resp) ==
    /\ screen \in {"detailed", "chart"}
    /\ c.routine = "price"
    /\ c.stage = 1
    /\ LET r == DetailedFirst(resp)
       IN  IF r.err.thrown
           THEN Finish(c, resp, [err |-> r.err, newPrice |-> Undef, data |-> NoPerf],
                       FALSE)
           ELSE /\ calls' = Resumed(c, SetToBag({[c EXCEPT !.stage = 2, !.mid = r.mid]}))
                /\ last' = Observed("next", c, resp, "pending", r.err,
                                    r.mid.newPrice, FALSE)
                /\ UNCHANGED << screen, phase, price, previousPrice, loading,
                                lastUpdated, priceColor, performanceData, error,
                                mstrData, chartData, selectedInterval, chartLoading,
                                closure, intervalTimer, flashTimers, nStarted,
                                nTicks, nSwitches, effectPending, chartSource, clock >>

\* fetchBitcoinData (detailed) resumes with the response of market_chart
DetailedSecondResponse(c, resp) ==
    /\ screen \in {"detailed", "chart"}
    /\ c.routine = "price"
    /\ c.stage = 2
    /\ Finish(c, resp, DetailedSecond(resp, c.mid), FALSE)

(***************************************************************************)
(* The resumptions of fetchChartData.                                      *)
(***************************************************************************)
\* the series of a body from the oldest point to the newest, as the upstream
\* interface orders it (observer)
RawOldestFirst(source, body) ==
    IF source = "gemini"
    THEN [i \in 1..Len(body.changes) |->
            ParseFloat(body.changes[Len(body.changes) + 1 - i])]
    ELSE [i \in 1..Len(body.prices) |-> body.prices[i][2]]

\* a catch clause that reports the failure in the screen's error cell
ErrorRaisedByChartCatch(e) == CatchMessage(e)

\* the catch clause of fetchChartData has no setError: the error cell after it
ErrorAfterChartCatch(e) == error

\* a catch clause that leaves the chart on display
ChartKeptOnCatch(old) == old

\* catch (error) { ...; setChartData(null) }
ChartAfterCatch(old) == NoChart

\* renderChart: what the chart region shows
RenderChart ==
    IF chartLoading THEN "Loading chart..."
    ELSE IF chartData = NoChart \/ Len(chartData.datasets[1].data) = 0
         THEN "Chart data unavailable"
    ELSE "LineChart"

\* the end of fetchChartData: setChartData(chartData) when nothing was thrown,
\* else the outer catch clause; then the finally clause
FinishChart(c, resp, r, source) ==
    LET out == IF ~r.err.thrown THEN "published"
               ELSE IF Caught(r.err) THEN "unavailable" ELSE "uncaught"
    IN  /\ calls' = Resumed(c, EmptyBag)
        /\ chartData' = IF out = "uncaught" THEN chartData
                        ELSE IF out = "unavailable" THEN ChartAfterCatch(chartData)
                        ELSE r.chart
        /\ chartSource' = IF out = "published" THEN RawOldestFirst(source, resp.body)
                          ELSE IF out = "unavailable" THEN <<>> ELSE chartSource
        /\ chartLoading' = FALSE
        /\ error' = IF out = "unavailable" THEN ErrorAfterChartCatch(r.err) ELSE error
        /\ last' = Observed("settle", c, resp, out, r.err, Undef, FALSE)
        /\ UNCHANGED << screen, phase, price, previousPrice, loading, lastUpdated,
                        priceColor, performanceData, mstrData,
                        selectedInterval, closure, intervalTimer, flashTimers,
                        nStarted, nTicks, nSwitches, effectPending, clock >>

\* fetchChartData('1D') resumes with the response of the hourly ticker: it
\* publishes the chart, or its inner catch clause issues the market_chart request
GeminiResponse(c, resp) ==
    /\ screen = "chart"
    /\ c.routine = "chart"
    /\ c.interval = "1D"
    /\ c.stage = 1
    /\ LET r == GeminiTry(resp)
       IN  IF r.err.thrown
           THEN /\ calls' = Resumed(c, SetToBag({[c EXCEPT !.stage = 2]}))
                /\ last' = Observed("next", c, resp, "pending", r.err, Undef, FALSE)
                /\ UNCHANGED << screen, phase, price, previousPrice, loading,
                                lastUpdated, priceColor, performanceData, error,
                                mstrData, chartData, selectedInterval, chartLoading,
                                closure, intervalTimer, flashTimers, nStarted,
                                nTicks, nSwitches, effectPending, chartSource, clock >>
           ELSE FinishChart(c, resp, r, "gemini")

\* fetchChartData resumes with the response of market_chart
PrimaryResponse(c, resp) ==
    /\ screen = "chart"
    /\ c.routine = "chart"
    /\ (c.interval = "1D") = (c.stage = 2)
    /\ FinishChart(c, resp, PrimaryTry(resp, c.interval), "primary")

\* the setTimeout callback: setPriceColor(null).  No reachable state has a
\* flash timer scheduled (C2_NeverFlashes), so Next does not list it.
FlashClear ==
    /\ flashTimers > 0
    /\ flashTimers' = flashTimers - 1
    /\ priceColor' = NoColor
    /\ last' = Idle("flash")
    /\ UNCHANGED << screen, phase, price, previousPrice, loading, lastUpdated,
                    performanceData, error, mstrData, chartData, selectedInterval,
                    chartLoading, closure, intervalTimer, calls, nStarted, nTicks,
                    nSwitches, effectPending, chartSource, clock >>

Next ==
    \/ MountEffect
    \/ Tick
    \/ Unmount
    \/ \E i \in Intervals : SelectInterval(i)
    \/ IntervalEffect
    \/ \E c \in Pending, resp \in Responses(SimpleBodies) : SimpleResponse(c, resp)
    \/ \E c \in Pending, resp \in Responses(MarketChartBodies) : SelfResponse(c, resp)
    \/ \E c \in Pending, resp \in Responses(EquityBodies) : EquityResponse(c, resp)
    \/ \E c \in Pending :
         \E resp \in IF screen = "chart" THEN ResponsesLite(DetailedBodiesLite)
                      ELSE Responses(DetailedBodies) :
            DetailedFirstResponse(c, resp)
    \/ \E c \in Pending :
         \E resp \in IF screen = "chart" THEN ResponsesLite(YearlyBodiesLite)
                      ELSE Responses(YearlyBodies) :
            DetailedSecondResponse(c, resp)
    \/ \E c \in Pending, resp \in ResponsesLite(GeminiBodiesLite) : GeminiResponse(c, resp)
    \/ \E c \in Pending, resp \in ResponsesLite(ChartBodiesLite) : PrimaryResponse(c, resp)

\* the five screens, each with its timer, its routines and every response
Spec == Init /\ [][Next]_vars

\* the chart routine alone, on every body up to MaxChartLen points: the chart
\* screen with the responses of its price routine withheld
InitChart == Init /\ screen = "chart"

NextChart ==
    \/ MountEffect
    \/ Unmount
    \/ \E i \in Intervals : SelectInterval(i)
    \/ IntervalEffect
    \/ \E c \in Pending, resp \in Responses(GeminiBodies) : GeminiResponse(c, resp)
    \/ \E c \in Pending, resp \in Responses(ChartBodies) : PrimaryResponse(c, resp)

SpecChart == InitChart /\ [][NextChart]_vars

\* the record a price routine publishes, as a function of what the upstream
\* answers: the initial fetch of the three screens that publish one
InitSnapshot == Init /\ screen \in {"detailed", "self", "equity"}

NextSnapshot ==
    \/ MountEffect
    \/ \E c \in Pending, resp \in Responses(SnapshotChartBodies) : SelfResponse(c, resp)
    \/ \E c \in Pending, resp \in Responses(SnapshotEquityBodies) : EquityResponse(c, resp)
    \/ \E c \in Pending, resp \in Responses(DetailedBodies) :
          DetailedFirstResponse(c, resp)
    \/ \E c \in Pending, resp \in Responses(SnapshotChartBodies) :
          DetailedSecondResponse(c, resp)

SpecSnapshot == InitSnapshot /\ [][NextSnapshot]_vars

\* the self-derived routine on series that are longer than its 24h window:
\* the initial fetch of the self-derived screen, answered with a well-formed
\* body of 2..MaxWindowLen points
WindowBodies ==
    {MarketChartBody(TRUE, L, sh, TRUE) : L \in 2..MaxWindowLen, sh \in WindowShapes}

InitWindow == Init /\ screen = "self"

NextWindow ==
    \/ MountEffect
    \/ \E c \in Pending, resp \in ResponsesLite(WindowBodies) : SelfResponse(c, resp)

SpecWindow == InitWindow /\ [][NextWindow]_vars

\* attempts that overlap: the three screens with an error cell and a record,
\* the timer firing up to MaxRetries times while earlier attempts are in
\* flight, every request rejected or answered with a well-formed body
RetryChartBodies == {MarketChartBody(TRUE, L, "up", TRUE) : L \in 2..MaxLen}
RetryEquityBodies ==
    {EquityBody(FALSE, FALSE, TRUE, TRUE, <<Day(c)>>) : c \in Prices}

InitRetry == Init /\ screen \in {"detailed", "self", "equity"}

NextRetry ==
    \/ MountEffect
    \/ TickUpTo(MaxRetries)
    \/ Unmount
    \/ \E c \in Pending, resp \in ResponsesLite(RetryChartBodies) : SelfResponse(c, resp)
    \/ \E c \in Pending, resp \in ResponsesLite(RetryEquityBodies) : EquityResponse(c, resp)
    \/ \E c \in Pending, resp \in ResponsesLite(DetailedBodiesLite) :
          DetailedFirstResponse(c, resp)
    \/ \E c \in Pending, resp \in ResponsesLite(YearlyBodiesLite) :
          DetailedSecondResponse(c, resp)

SpecRetry == InitRetry /\ [][NextRetry]_vars

(***************************************************************************)
(* Properties.                                                             *)
(***************************************************************************)
SettledPrice == last.act = "settle" /\ last.routine = "price"
SettledChart == last.act = "settle" /\ last.routine = "chart"
InitialPending == \E c \in Pending : c.routine = "price" /\ c.initial
PeriodicPending == \E c \in Pending : c.routine = "price" /\ ~c.initial

\* C1: on every screen loading is true from mount until the initial fetch
\* settles, by success or by failure, and false from then on; no periodic
\* fetch sets it again.
C1_LoadingUntilInitialSettles ==
    loading <=> (phase = "rendered" \/ InitialPending)

\* the initial fetch has settled by failing, and loading is off
C1_Witness ==
    /\ SettledPrice /\ last.initial /\ last.outcome \in {"error", "logged"}
    /\ ~loading

C1_WitnessPeriodic ==
    /\ ~loading /\ ~InitialPending /\ PeriodicPending /\ nTicks > 0

\* C2: every successful spot-price fetch whose price differs from the price
\* on display (the one the last successful fetch published) sets the flash
\* colour, green when higher and red when lower, and leaves it untouched when
\* the prices are equal or none was held.
C2_FlashOnChange ==
    (SettledPrice /\ last.outcome = "published" /\ last.shown # Null)
        => /\ JsGt(last.newPrice, last.shown) => priceColor = GREEN
           /\ JsLt(last.newPrice, last.shown) => priceColor = RED

\* a periodic fetch has published a price above the one on display
C2_Witness ==
    /\ SettledPrice /\ last.outcome = "published" /\ ~last.initial
    /\ last.shown # Null /\ JsGt(last.newPrice, last.shown)

\* what the code does instead: the routine the timer calls compares with the
\* price of the first render, which is null, so no colour is ever set and no
\* clear is ever scheduled
C2_NeverFlashes == priceColor = NoColor /\ flashTimers = 0 /\ Held = Null

\* the ways a price fetch fails upstream, read off the last response
TransportFailure == last.resp.kind \in {"reject", "badjson"}

MissingField ==
    /\ last.resp.kind = "json"
    /\ LET b == last.resp.body
       IN  CASE screen = "simple" -> ~b.has_bitcoin \/ b.usd = Undef
             [] screen = "self" -> ~b.has_prices \/ ~b.has_aux
             [] screen = "equity" ->
                    /\ ~b.has_error_message /\ ~b.has_note
                    /\ (~b.has_series \/ ~b.has_meta \/ Len(b.days) = 0
                           \/ ~b.days[1].has_fields)
             [] last.stage = 1 ->
                    ~b.has_market_data \/ ~b.has_current_price \/ ~b.has_stats
             [] OTHER -> ~b.has_prices

FailedUpstream == TransportFailure \/ MissingField

\* C4: on every spot-price poller a fetch that fails by network error,
\* malformed JSON or a missing field ends with error set to a message.
C4_FailureSetsError ==
    (SettledPrice /\ FailedUpstream) => error # NoError

\* what the code keeps of C4: where the component declares an error cell, a
\* rejected request or an unparsable body does set it
C4_TransportFailureSetsErrorCell ==
    (SettledPrice /\ TransportFailure /\ HasErrorCell(screen)) => error # NoError

\* the simple-price poller has failed on a rejected request
C4_Witness ==
    /\ SettledPrice /\ TransportFailure /\ screen = "simple" /\ error = NoError

\* C5: no fetch routine completes with an uncaught exception: whatever the
\* upstream answers (rejected request, unparsable body, fields missing,
\* arrays empty or too short), it settles normally, either with its data
\* published or in the error state (price routines) or the unavailable state
\* (chart routine).
C5_NoUncaught ==
    last.act = "settle" =>
        \/ last.outcome = "published"
        \/ last.outcome = "error" /\ error # NoError /\ HasErrorCell(screen)
        \/ last.outcome = "unavailable" /\ chartData = NoChart /\ ~chartLoading

\* what the code keeps of C5: every routine settles normally, nothing leaves
\* it uncaught; fetchBitcoinPrice, whose catch clause only logs, is the one
\* routine that settles in neither state
C5_SettlesNormally ==
    last.act = "settle" =>
        /\ last.outcome \in {"published", "error", "unavailable", "logged"}
        /\ last.outcome = "logged" => (screen = "simple" /\ error = NoError)
        /\ last.outcome = "error" => (error # NoError /\ HasErrorCell(screen))
        /\ last.outcome = "unavailable" => (chartData = NoChart /\ ~chartLoading)

\* fetchBitcoinPrice has failed before any price was published: no data, no
\* error state
C5_WitnessLogged ==
    /\ screen = "simple" /\ SettledPrice /\ last.outcome = "logged"
    /\ last.initial /\ price = Null /\ error = NoError /\ ~loading

\* the 1D fallback request, issued from inside the inner catch clause, fails
C5_Witness ==
    /\ SettledChart /\ last.interval = "1D" /\ last.stage = 2
    /\ last.outcome = "unavailable" /\ chartData = NoChart /\ ~chartLoading

\* step l settled fetchMSTRData on a body with a soft-error key
SoftErrorBody(l) ==
    /\ l.act = "settle" /\ l.routine = "price" /\ l.resp.kind = "json"
    /\ (l.resp.body.has_error_message \/ l.resp.body.has_note)

\* C6: an equity body with the key "Error Message" or "Note", whatever else
\* it holds, ends fetchMSTRData in the error state with the key's message,
\* without parsing the series and with mstrData left as it was.
C6_SoftError ==
    [][(screen = "equity" /\ SoftErrorBody(last'))
          => /\ error' = IF last'.resp.body.has_error_message
                         THEN MsgInvalidCall ELSE MsgRateLimit
             /\ last'.outcome = "error"
             /\ ~last'.parsed
             /\ mstrData' = mstrData]_vars

\* a "Note" body that also carries a series arrives while data is on display
C6_Witness ==
    /\ screen = "equity" /\ SoftErrorBody(last)
    /\ last.resp.body.has_note /\ ~last.resp.body.has_error_message
    /\ last.resp.body.has_series
    /\ mstrData # Null /\ error = MsgRateLimit

\* step l settled fetchMSTRData on a body without soft-error key whose daily
\* series is missing, empty or has a latest entry without the price fields
BadSeriesBody(l) ==
    /\ l.act = "settle" /\ l.routine = "price" /\ l.resp.kind = "json"
    /\ ~l.resp.body.has_error_message /\ ~l.resp.body.has_note
    /\ \/ ~l.resp.body.has_series
       \/ Len(l.resp.body.days) = 0
       \/ ~l.resp.body.days[1].has_fields

\* C7: each equity failure mode has its own fixed message; a body whose daily
\* series is missing, is empty or has a latest entry without the price fields
\* yields 'No time series data available', never a runtime-generated text.
C7_SeriesMessage ==
    (screen = "equity" /\ BadSeriesBody(last)) => error = MsgNoSeries

\* the part of C7 the code keeps: a missing series has the fixed message
C7_MissingSeriesMessage ==
    (screen = "equity" /\ BadSeriesBody(last) /\ ~last.resp.body.has_series)
        => error = MsgNoSeries

\* an empty series ends in the runtime's TypeError text
C7_Witness ==
    /\ screen = "equity" /\ BadSeriesBody(last)
    /\ last.resp.body.has_series /\ Len(last.resp.body.days) = 0
    /\ error = MsgTypeError

\* C8: after teardown the periodic timer never fires again: no step after
\* unmount starts a fetch.
C8_NoFetchAfterUnmount ==
    [][phase = "unmounted" => (nStarted' = nStarted /\ nTicks' = nTicks)]_vars

\* torn down before the timer's ticks were used up, and a fetch that was in
\* flight has settled since
C8_Witness ==
    /\ phase = "unmounted" /\ nTicks < MaxTicks /\ last.act = "settle"

\* C9: once the screen is unmounted no timer callback of the screen is still
\* scheduled: neither the periodic timer nor a 2-second flash clear.  (No
\* flash clear is ever scheduled, see C2_NeverFlashes: the second conjunct
\* says nothing about a cleanup of it, which the source does not have.)
C9_NoTimerAfterUnmount ==
    phase = "unmounted" => (~intervalTimer /\ flashTimers = 0)

\* torn down with a fetch in flight that then published a changed price
C9_Witness ==
    /\ phase = "unmounted" /\ SettledPrice /\ last.outcome = "published"
    /\ last.shown # Null /\ StrictNeq(last.newPrice, last.shown)

\* s is t with elements left out, order kept
RECURSIVE IsSubseq(_, _)
IsSubseq(s, t) ==
    IF Len(s) = 0 THEN TRUE
    ELSE IF Len(t) = 0 THEN FALSE
    ELSE IF s[1] = t[1] THEN IsSubseq(Tail(s), Tail(t))
    ELSE IsSubseq(s, Tail(t))

\* C10: after any chart fetch a non-null chartData has as many labels as
\* values, and the values run from the oldest point to the newest.
C10_ChartSeries ==
    chartData # NoChart =>
        /\ Len(chartData.labels) = Len(chartData.datasets[1].data)
        /\ IsSubseq(chartData.datasets[1].data, chartSource)

\* the 1D fallback has published a series it thinned out
C10_Witness ==
    /\ SettledChart /\ last.interval = "1D" /\ last.stage = 2
    /\ chartData # NoChart
    /\ Len(chartData.datasets[1].data) > 1
    /\ Len(chartData.datasets[1].data) < Len(chartSource)

\* the hourly ticker has published its points
C10_WitnessGemini ==
    /\ SettledChart /\ last.interval = "1D" /\ last.stage = 1
    /\ chartData # NoChart /\ Len(chartData.labels) > 1

\* the last step published a chart made from a market_chart series: the 1D
\* fallback or another span
PublishedPrimary ==
    /\ SettledChart /\ last.outcome = "published"
    /\ (last.interval # "1D" \/ last.stage = 2)

\* C11: the downsampler, for a series of L >= 1 points and target T, uses
\* step = max(1, ceil(L/T)) and keeps exactly the points at indices 0, step,
\* 2*step, ...: ceil(L/step) points, at least 1 and at most T, the first point
\* among them, each value unaltered and in the order of the input.
C11_Downsampler ==
    PublishedPrimary =>
        LET L == Len(chartSource)
            T == Target(last.interval)
            out == chartData.datasets[1].data
            n == Len(out)
            step == CHOOSE st \in 1..L :
                        st * T >= L /\ (st = 1 \/ (st - 1) * T < L)
        IN  /\ L >= 1
            /\ (n - 1) * step < L /\ L <= n * step
            /\ 1 <= n /\ n <= T
            /\ out[1] = chartSource[1]
            /\ \A k \in 1..n : out[k] = chartSource[(k - 1) * step + 1]
            /\ Len(chartData.labels) = n

\* a month of 16 points thinned with step 2 to exactly the 8 points aimed at
C11_Witness ==
    /\ PublishedPrimary /\ last.interval = "1M"
    /\ Len(chartSource) = 2 * Target("1M")
    /\ Len(chartData.datasets[1].data) = Target("1M")

\* a step that resumed fetchChartData with a response
ChartStep(l) == l.routine = "chart" /\ l.act \in {"settle", "next"}

\* the response is one of the hourly ticker, of the market_chart endpoint
FromTicker(resp) == resp.kind = "json" /\ "has_changes" \in DOMAIN resp.body
FromMarketChart(resp) == resp.kind = "json" /\ "has_prices" \in DOMAIN resp.body

\* the hourly ticker answered a non-empty list
TickerAnswered(resp) ==
    /\ FromTicker(resp) /\ resp.body.has_changes /\ Len(resp.body.changes) > 0

\* the step has issued the market_chart request of the 1D fallback: one more
\* call is pending at it than before
FallbackRequested ==
    \E c \in BagToSet(calls') :
        /\ c.routine = "chart" /\ c.interval = "1D" /\ c.stage = 2
        /\ CopiesIn(c, calls') = CopiesIn(c, calls) + 1

\* C12: for 1D the hourly ticker is asked first and wins when it answers a
\* non-empty list, which is charted reversed, oldest first; market_chart is
\* requested for 1D if and only if the ticker request failed, was unparsable
\* or gave an empty or missing list, and the chart is then the stride-sampled
\* market_chart series.  For the other spans the ticker is never asked.
C12_SecondaryFirst ==
    [][ChartStep(last') =>
         LET l == last'
             first == l.interval = "1D" /\ l.stage = 1
         IN  /\ first =>
                   /\ ~FromMarketChart(l.resp)
                   /\ IF TickerAnswered(l.resp)
                      THEN /\ l.act = "settle" /\ l.outcome = "published"
                           /\ chartData'.datasets[1].data =
                                 [i \in 1..Len(l.resp.body.changes) |->
                                    ParseFloat(l.resp.body.changes[
                                        Len(l.resp.body.changes) + 1 - i])]
                           /\ BagCardinality(calls') = BagCardinality(calls) - 1
                      ELSE /\ l.act = "next" /\ FallbackRequested
                           /\ BagCardinality(calls') = BagCardinality(calls)
                           /\ chartData' = chartData
             /\ ~first =>
                   /\ ~FromTicker(l.resp)
                   /\ l.act = "settle"
                   /\ (l.stage = 2) = (l.interval = "1D")
                   /\ l.outcome = "published" =>
                         chartData'.datasets[1].data =
                             [k \in 1..Len(Downsample(l.resp.body.prices,
                                                      Target(l.interval))) |->
                                Downsample(l.resp.body.prices,
                                           Target(l.interval))[k][2]]]_vars

\* the ticker answered an empty list and the fallback published the sampled
\* market_chart series
C12_Witness ==
    /\ SettledChart /\ last.interval = "1D" /\ last.stage = 2
    /\ last.outcome = "published"
    /\ Len(chartSource) > Target("1D")
    /\ Len(chartData.datasets[1].data) < Len(chartSource)

\* the ticker has won with a non-empty list
C12_WitnessTicker ==
    /\ SettledChart /\ last.interval = "1D" /\ last.stage = 1
    /\ last.outcome = "published" /\ TickerAnswered(last.resp)
    /\ Len(chartData.datasets[1].data) = Len(last.resp.body.changes)

\* the response gives fetchChartData no series: the request failed, the body
\* was unparsable, or prices is missing or empty
NoUsableSeries(resp) ==
    ~(FromMarketChart(resp) /\ resp.body.has_prices /\ Len(resp.body.prices) > 0)

\* the step resumed fetchChartData at its last request (the fallback for 1D,
\* which is reached only after the ticker gave nothing; the only request for
\* another span) with a response that gives no series
LastSourceFailed ==
    /\ ChartStep(last)
    /\ (last.stage = 2) = (last.interval = "1D")
    /\ NoUsableSeries(last.resp)

\* C13: a chart fetch that gets no usable series (for 1D from neither source,
\* for another span from market_chart) ends with chartData null and
\* chartLoading false, which the chart region renders as 'Chart data
\* unavailable', and throws nothing.
C13_Unavailable ==
    LastSourceFailed =>
        /\ last.act = "settle" /\ last.outcome = "unavailable"
        /\ chartData = NoChart /\ ~chartLoading
        /\ RenderChart = "Chart data unavailable"

\* a week's request answered with an empty prices array
C13_Witness ==
    /\ LastSourceFailed /\ last.interval = "1W"
    /\ FromMarketChart(last.resp) /\ last.resp.body.has_prices
    /\ Len(last.resp.body.prices) = 0 /\ chartData = NoChart

\* for 1D the ticker gave nothing and the fallback request was rejected
C13_WitnessBoth ==
    /\ LastSourceFailed /\ last.interval = "1D" /\ last.resp.kind = "reject"
    /\ RenderChart = "Chart data unavailable"

\* a step that resumed the price routine with a response
PriceStep(l) == l.routine = "price" /\ l.act \in {"settle", "next"}

\* C14: the chart fetch and the price fetch write disjoint state: a step of
\* fetchChartData (the one the interval effect starts included) leaves price,
\* previousPrice, performanceData, priceColor, loading, lastUpdated and error
\* as they were; a step of fetchBitcoinData leaves chartData, chartLoading and
\* selectedInterval as they were.
C14_DisjointWrites ==
    [][/\ (ChartStep(last') \/ last'.act \in {"select", "effect"}) =>
             UNCHANGED << price, previousPrice, performanceData, priceColor,
                          loading, lastUpdated, error >>
       /\ PriceStep(last') =>
             UNCHANGED << chartData, chartLoading, selectedInterval >>]_vars

\* a chart fetch has failed under a published price: the content view stays
C14_Witness ==
    /\ screen = "chart" /\ SettledChart /\ last.outcome = "unavailable"
    /\ price # Null /\ performanceData # NoPerf /\ error = NoError /\ ~loading

\* a price fetch has failed under a chart on display: the chart stays set
C14_WitnessPrice ==
    /\ screen = "chart" /\ SettledPrice /\ last.outcome = "error"
    /\ chartData # NoChart

\* the last step published a PerformanceSnapshot
PublishedSnapshot ==
    /\ screen \in {"detailed", "chart", "self"}
    /\ SettledPrice /\ last.outcome = "published"

\* C15: every published PerformanceSnapshot, of the detailed and of the
\* self-derived strategy, has priceChange equal to currentPrice - previousPrice.
C15_ChangeIsDifference ==
    PublishedSnapshot =>
        performanceData.priceChange =
            JsSub(performanceData.currentPrice, performanceData.previousPrice)

\* what the code keeps of C15: the equality holds whenever the published
\* current price is a number
C15_NumericChangeIsDifference ==
    (PublishedSnapshot /\ IsNum(performanceData.currentPrice)) =>
        /\ IsNum(performanceData.previousPrice) /\ IsNum(performanceData.priceChange)
        /\ performanceData.priceChange.v * performanceData.currentPrice.d
              * performanceData.previousPrice.d
           = (performanceData.currentPrice.v * performanceData.previousPrice.d
                - performanceData.previousPrice.v * performanceData.currentPrice.d)
              * performanceData.priceChange.d

\* a snapshot published from a body whose current_price has no usd entry
C15_Witness ==
    /\ PublishedSnapshot /\ screen = "detailed"
    /\ performanceData.currentPrice = Undef
    /\ performanceData.previousPrice = NaN
    /\ IsNum(performanceData.priceChange)

\* (current - previous) / previous * 100
PercentOf(current, previous) ==
    JsMul(JsDiv(JsSub(current, previous), previous), Num(100))

\* the last step published an equity record
PublishedEquity ==
    /\ screen = "equity" /\ SettledPrice /\ last.outcome = "published"

\* the previous price of the published equity record: the close of the
\* previous trading day, or the open of the latest day when it is the only one
EquityPrevious ==
    LET days == last.resp.body.days
    IN  IF Len(days) >= 2 THEN ParseFloat(days[2].close)
        ELSE ParseFloat(days[1].open)

\* C16: every published record that carries a change percent has
\* priceChangePercent equal to (current - previous) / previous * 100 for its
\* own current and previous prices: the snapshot of the detailed strategy,
\* the snapshot of the self-derived strategy and the equity record.
C16_PercentOfOwnPrices ==
    /\ PublishedSnapshot =>
          performanceData.priceChangePercent =
              PercentOf(performanceData.currentPrice, performanceData.previousPrice)
    /\ PublishedEquity =>
          mstrData.priceChangePercent = PercentOf(mstrData.price, EquityPrevious)

\* what the code keeps of C16: the percent of the self-derived snapshot and of
\* the equity record is computed from the record's own prices
C16_DerivedPercent ==
    /\ (PublishedSnapshot /\ screen = "self") =>
          performanceData.priceChangePercent =
              PercentOf(performanceData.currentPrice, performanceData.previousPrice)
    /\ PublishedEquity =>
          mstrData.priceChangePercent = PercentOf(mstrData.price, EquityPrevious)

\* the provider sent a 24h change of 1 and no percentage: the detailed
\* snapshot carries change 1 and percent 0
C16_Witness ==
    /\ PublishedSnapshot /\ screen = "detailed"
    /\ IsNum(performanceData.currentPrice)
    /\ performanceData.priceChange = Num(1)
    /\ performanceData.priceChangePercent = Num(0)

\* x cannot serve as the denominator of a percent: zero, or not a number
NoDenominator(x) == ~IsNum(x) \/ x.v = 0

\* a percent published as not computable: zero, or left out
ZeroOrOmitted(x) == x = Num(0) \/ x = Undef

\* the response is a market_chart body with a single point
SinglePoint(resp) ==
    /\ FromMarketChart(resp) /\ resp.body.has_prices /\ resp.body.has_aux
    /\ Len(resp.body.prices) = 1

\* C17: when the previous price that a percent is divided by is zero or
\* undefined (a single-point series, a zero first point for the yearly
\* figure), the percent is published as zero or omitted and the rest of the
\* record is still published; nothing is divided by zero, in either strategy
\* or on the equity screen.
C17_GuardedPercent ==
    /\ PublishedSnapshot =>
          /\ NoDenominator(performanceData.previousPrice) =>
                ZeroOrOmitted(performanceData.priceChangePercent)
          /\ NoDenominator(performanceData.priceOneYearAgo) =>
                ZeroOrOmitted(performanceData.yearlyChangePercent)
    /\ PublishedEquity =>
          (NoDenominator(EquityPrevious) =>
               ZeroOrOmitted(mstrData.priceChangePercent))
    /\ (screen = "self" /\ SettledPrice /\ SinglePoint(last.resp)) =>
          last.outcome = "published"

\* what the code does instead: it divides, and publishes the quotient
C17_DividesByZero ==
    /\ (PublishedSnapshot /\ IsNum(performanceData.currentPrice)
          /\ performanceData.priceOneYearAgo = Num(0)) =>
          performanceData.yearlyChangePercent.k \in {"Infinity", "NaN"}
    /\ (PublishedEquity /\ IsNum(mstrData.price) /\ EquityPrevious = Num(0)) =>
          mstrData.priceChangePercent.k \in {"Infinity", "NaN"}
    /\ (screen = "self" /\ SettledPrice /\ SinglePoint(last.resp)) =>
          last.outcome = "error" /\ error = MsgTypeError

\* a series whose first point is zero: the yearly percent is published as
\* Infinity
C17_Witness ==
    /\ PublishedSnapshot /\ screen = "self"
    /\ performanceData.priceOneYearAgo = Num(0)
    /\ performanceData.yearlyChangePercent = Inf(1)

\* the 365-day series the published snapshot was computed from
YearSeries == last.resp.body.prices

\* a * c = b as rationals, for numbers a, b, c
IsProduct(b, a, c) == b.v * a.d * c.d = a.v * c.v * b.d

\* C18: for every non-empty 365-day series, priceOneYearAgo is the price of
\* the earliest point, yearlyChange is currentPrice - priceOneYearAgo and
\* yearlyChangePercent is yearlyChange / priceOneYearAgo * 100; the
\* self-derived strategy takes the current price from the last point, so that
\* a series from 30000 to 60000 gives yearlyChange 30000 and percent 100.
C18_YearlyFigures ==
    PublishedSnapshot =>
        LET pd == performanceData
            first == YearSeries[1][2]
            final == YearSeries[Len(YearSeries)][2]
        IN  /\ Len(YearSeries) >= 1
            /\ pd.priceOneYearAgo = first
            /\ pd.yearlyChange = JsSub(pd.currentPrice, first)
            /\ pd.yearlyChangePercent =
                   JsMul(JsDiv(pd.yearlyChange, first), Num(100))
            /\ (IsNum(pd.currentPrice) /\ IsNum(first)) =>
                   /\ IsNum(pd.yearlyChange)
                   /\ pd.yearlyChange.v * pd.currentPrice.d * first.d
                        = (pd.currentPrice.v * first.d - first.v * pd.currentPrice.d)
                            * pd.yearlyChange.d
                   /\ first.v # 0 =>
                         /\ IsNum(pd.yearlyChangePercent)
                         /\ IsProduct(JsMul(pd.yearlyChange, Num(100)),
                                      pd.yearlyChangePercent, first)
            /\ screen = "self" => pd.currentPrice = final
            /\ (screen = "self" /\ first = Num(30000) /\ final = Num(60000)) =>
                   pd.yearlyChange = Num(30000) /\ pd.yearlyChangePercent = Num(100)

\* a self-derived snapshot published from a series that runs from 30000 to
\* 60000
C18_Witness ==
    /\ PublishedSnapshot /\ screen = "self"
    /\ Len(YearSeries) >= 2
    /\ YearSeries[1][2] = Num(30000)
    /\ performanceData.currentPrice = Num(60000)
    /\ performanceData.priceOneYearAgo = Num(30000)
    /\ performanceData.yearlyChange = Num(30000)
    /\ performanceData.yearlyChangePercent = Num(100)

\* a detailed snapshot whose current price comes from the first request and
\* whose first point of the year is another number
C18_WitnessDetailed ==
    /\ PublishedSnapshot /\ screen = "detailed"
    /\ IsNum(performanceData.currentPrice) /\ IsNum(performanceData.priceOneYearAgo)
    /\ performanceData.priceOneYearAgo.v # 0
    /\ performanceData.yearlyChange # Num(0)

\* the screen shows a price record with a PerformanceSnapshot
HasSnapshot == screen \in {"detailed", "chart", "self"}

\* the last step was a price fetch that published, and the three cells hold
\* what that fetch computed
FromLastFetch ==
    /\ SettledPrice /\ last.outcome = "published"
    /\ price = last.newPrice
    /\ performanceData.currentPrice = last.newPrice
    /\ lastUpdated = Num(clock)

\* what the code keeps of C19: once the setters of a publication have all
\* run, price, performanceData and lastUpdated come from the same fetch, and
\* a routine writes any of the three cells only by writing all three, also
\* when fetches overlap
C19_CommittedAsOneUnit ==
    /\ [](HasSnapshot =>
            /\ (price # Null /\ performanceData # NoPerf) =>
                   performanceData.currentPrice = price
            /\ (price = Null) = (performanceData = NoPerf)
            /\ (price = Null) = (lastUpdated = Null))
    /\ [][(HasSnapshot /\ << price, performanceData, lastUpdated >>
                            # << price', performanceData', lastUpdated' >>)
             => /\ FromLastFetch'
                /\ lastUpdated' # lastUpdated]_vars

\* a rendered view shows a record of one fetch
OneFetch(f) ==
    /\ (f.price # Null /\ f.performanceData # NoPerf) =>
           f.performanceData.currentPrice = f.price
    /\ (f.price = price /\ f.performanceData = performanceData) =>
           f.lastUpdated = lastUpdated

\* C19: the price record is replaced as one unit per successful fetch.  In
\* every state a renderer can observe, price, performanceData and
\* lastUpdated come from the same fetch: whenever price and performanceData
\* are both non-null, performanceData.currentPrice = price, also when two
\* fetches overlap.  The states a renderer can observe are those between
\* steps and the views rendered while the setters of a publication run.
C19_OneUnit ==
    /\ C19_CommittedAsOneUnit
    /\ [](HasSnapshot =>
            \A i \in DOMAIN last.frames : OneFetch(last.frames[i]))

\* a periodic fetch publishes another price than the one on display on a
\* root that renders after each setter: the view rendered after
\* setPrice(newPrice) shows the new price over the snapshot of the fetch before
C19_WitnessTorn ==
    /\ HasSnapshot /\ FromLastFetch /\ ~last.initial
    /\ Len(last.frames) = 4
    /\ last.frames[2].price = price
    /\ last.frames[2].performanceData # NoPerf
    /\ last.frames[2].performanceData.currentPrice # price
    /\ last.frames[4].performanceData.currentPrice = price

\* two attempts overlapped and the one that settled last replaced the record
\* of the other: the record on display is that of one fetch
C19_Witness ==
    /\ HasSnapshot /\ FromLastFetch
    /\ ~last.initial /\ nTicks = MaxRetries
    /\ last.shown # Null /\ last.shown # price
    /\ Pending # {}
    /\ performanceData.currentPrice = price

\* the step is a tick of the periodic timer
TickStep == nTicks' = nTicks + 1

\* the step starts an attempt: one more invocation of the price routine awaits
\* its first response
AttemptStarted(initial) ==
    LET c == Call("price", initial, "1D")
    IN  /\ nStarted' = nStarted + 1
        /\ CopiesIn(c, calls') = CopiesIn(c, calls) + 1

\* an attempt started by a tick has just succeeded
RetrySucceeded == SettledPrice /\ ~last.initial /\ last.outcome = "published"

\* what the code keeps of C20: attempts are started by the mount effect and
\* by ticks only, a failed fetch schedules nothing, and every tick of a
\* mounted screen starts one attempt whatever failed before
C20_RetryOnlyOnTick ==
    [][/\ nStarted' # nStarted => (TickStep \/ last'.act = "mount")
       /\ (last'.act = "settle" /\ last'.outcome = "error") =>
             /\ nStarted' = nStarted
             /\ BagCardinality(calls') = BagCardinality(calls) - 1
       /\ TickStep => (phase = "mounted" /\ AttemptStarted(FALSE))]_vars

\* what the code keeps of C20: an attempt that succeeds publishes its price
C20_SuccessPublishes == RetrySucceeded => Shown = last.newPrice

\* C20: after a failed price fetch no request is issued before the next tick
\* of the periodic timer; while the screen is mounted every tick starts a new
\* attempt, however many attempts failed before; and if that attempt
\* succeeds, the screen ends with error null and the new price published.
C20_RetryOnTick ==
    /\ C20_RetryOnlyOnTick
    /\ [](RetrySucceeded => (error = NoError /\ Shown = last.newPrice))

\* the attempt of the second tick has succeeded after the attempt of the first
\* tick failed: the new price is published under the older attempt's message
C20_Witness ==
    /\ RetrySucceeded /\ nTicks = MaxRetries
    /\ Shown = last.newPrice
    /\ error # NoError
    /\ Pending = {}

\* a <= b for numbers
Leq(a, b) == IsNum(a) /\ IsNum(b) /\ a.v * b.d <= b.v * a.d

\* the prices of the last min(Window, L) points of the series
LastDay ==
    LET L == Len(YearSeries)
    IN  {YearSeries[i][2] : i \in (IF L > Window THEN L - Window + 1 ELSE 1)..L}

\* C22: in the self-derived strategy, for a series of length L >= 2 with
\* equally long market-cap and volume arrays, currentPrice is the last point,
\* high24h and low24h are the maximum and the minimum of the last min(48, L)
\* points, previousPrice is the point at (0-based) index L - 48 when L > 48
\* and at index L - 2 otherwise; hence low24h <= currentPrice <= high24h and
\* low24h <= previousPrice <= high24h in every published snapshot.
C22_DayWindow ==
    (PublishedSnapshot /\ screen = "self") =>
        LET pd == performanceData
            L == Len(YearSeries)
        IN  /\ L >= 2
            /\ pd.currentPrice = YearSeries[L][2]
            /\ pd.high24h \in LastDay /\ \A w \in LastDay : Leq(w, pd.high24h)
            /\ pd.low24h \in LastDay /\ \A w \in LastDay : Leq(pd.low24h, w)
            /\ pd.previousPrice =
                   IF L > Window THEN YearSeries[(L - Window) + 1][2]
                   ELSE YearSeries[(L - 2) + 1][2]
            /\ Leq(pd.low24h, pd.currentPrice) /\ Leq(pd.currentPrice, pd.high24h)
            /\ Leq(pd.low24h, pd.previousPrice) /\ Leq(pd.previousPrice, pd.high24h)

\* a falling series longer than the window: the high of the day is the
\* oldest point of the window, which is also the previous price, and not
\* the first point of the year
C22_Witness ==
    /\ PublishedSnapshot /\ screen = "self"
    /\ Len(YearSeries) > Window
    /\ performanceData.high24h = YearSeries[Len(YearSeries) - Window + 1][2]
    /\ performanceData.previousPrice = performanceData.high24h
    /\ performanceData.high24h # YearSeries[1][2]
    /\ performanceData.low24h = performanceData.currentPrice

\* a series no longer than the window: the previous price is the point
\* before the last one
C22_WitnessShort ==
    /\ PublishedSnapshot /\ screen = "self"
    /\ Len(YearSeries) \in 3..Window
    /\ performanceData.previousPrice = YearSeries[Len(YearSeries) - 1][2]
    /\ performanceData.high24h # performanceData.currentPrice

\* C23: on each screen the retry delay that the full-screen error panel
\* announces equals the period of the screen's polling timer, whose tick is
\* the only retry: 2 minutes against 120000 ms on the Bitcoin screens, and
\* the announced delay against the 300000 ms timer on the equity screen.
C23_NoticeIsPeriod ==
    ErrorPanelShown => NoticeMs(RetryText(screen)) = PollPeriod(screen)

\* what the code keeps of C23: the notice of the Bitcoin screens is the period
\* of their timer
C23_BitcoinNotice ==
    (ErrorPanelShown /\ screen # "equity") =>
        NoticeMs(RetryText(screen)) = PollPeriod(screen) /\ PollPeriod(screen) = 120000

\* the equity screen shows its error panel: 60 seconds announced, the timer
\* ticks every 300000 ms
C23_Witness ==
    /\ screen = "equity" /\ ErrorPanelShown /\ intervalTimer
    /\ NoticeMs(RetryText(screen)) = 60000
    /\ PollPeriod(screen) = 300000

\* the last step ended a price routine in its catch clause
FailedPrice(l) == PriceStep(l) /\ l.act = "settle" /\ l.outcome \in {"error", "logged"}

\* C24: a failed price fetch publishes nothing partial.  When a request of
\* the detailed strategy fails (the second one after the first succeeded
\* included), or the single request of the self-derived or equity fetch,
\* the step leaves price, previousPrice, performanceData, mstrData, priceColor
\* and lastUpdated as they were: only error changes, and loading on the
\* initial load; the step between the two requests of the detailed strategy
\* writes no cell at all.
C24_NothingPartial ==
    [][/\ FailedPrice(last') =>
             /\ UNCHANGED << price, previousPrice, performanceData, mstrData,
                             priceColor, lastUpdated, flashTimers >>
             /\ loading' = IF last'.initial THEN FALSE ELSE loading
             /\ HasErrorCell(screen) => error' # NoError
       /\ (PriceStep(last') /\ last'.act = "next") =>
             UNCHANGED << price, previousPrice, performanceData, mstrData,
                          priceColor, lastUpdated, flashTimers, error, loading >>]_vars

\* the second request of a periodic attempt of the detailed strategy has
\* failed after the first succeeded with another price than the one on
\* display: the record of the earlier fetch is still there
C24_Witness ==
    /\ screen = "detailed" /\ FailedPrice(last) /\ last.stage = 2 /\ ~last.initial
    /\ price # Null /\ performanceData # NoPerf /\ lastUpdated # Null
    /\ performanceData.currentPrice = price
    /\ error # NoError

\* the single request of a periodic attempt of the equity screen has failed
\* under a published record
C24_WitnessEquity ==
    /\ screen = "equity" /\ FailedPrice(last) /\ ~last.initial
    /\ mstrData # Null /\ lastUpdated # Null /\ error # NoError

\* the step starts a chart fetch for interval i
ChartRequested(i) ==
    LET c == Call("chart", FALSE, i)
    IN  CopiesIn(c, calls') = CopiesIn(c, calls) + 1

\* C25: on the charting screen every periodic refresh tick fetches the chart
\* series of the interval that is selected when the timer ticks: once the
\* user has switched away from 1D, no later tick requests a 1D series.
C25_TickFetchesSelected ==
    [][(TickStep /\ screen = "chart") =>
          /\ ChartRequested(selectedInterval)
          /\ selectedInterval # "1D" => ~ChartRequested("1D")]_vars

\* what the code does: the timer callback is the one of the first render and
\* requests the 1D series whatever is selected
C25_TickFetchesDay ==
    [][(TickStep /\ screen = "chart") => ChartRequested("1D")]_vars

\* the timer has ticked under another interval than 1D with no other chart
\* fetch in flight: the one it started is for 1D
C25_Witness ==
    /\ screen = "chart" /\ last.act = "tick"
    /\ selectedInterval # "1D"
    /\ chartData # NoChart
    /\ {c \in Pending : c.routine = "chart"} = {Call("chart", FALSE, "1D")}
    /\ CopiesIn(Call("chart", FALSE, "1D"), calls) = 1

\* a chart fetch is awaiting a response
ChartInFlight == \E c \in Pending : c.routine = "chart"

\* C26: whenever no chart fetch is in flight, a non-null chartData is the
\* series of the currently selected interval: the response of a fetch that
\* an interval change has overtaken never ends up as the chart on display,
\* in whatever order the responses arrive.  (chartData is non-null without a
\* fetch in flight only after a step that published it, and keeps its
\* interval until the next chart fetch starts.)
C26_ChartOfSelected ==
    [][(ChartStep(last') /\ ~ChartInFlight' /\ chartData' # NoChart) =>
          /\ last'.outcome = "published"
          /\ last'.interval = selectedInterval']_vars

\* the response of the fetch started on mount arrived after the one of the
\* interval the user switched to: the 1D series is on display under the
\* selected interval, with nothing in flight
C26_Witness ==
    /\ screen = "chart" /\ SettledChart /\ last.outcome = "published"
    /\ ~ChartInFlight /\ chartData # NoChart /\ RenderChart = "LineChart"
    /\ last.interval = "1D" /\ selectedInterval # "1D"
    /\ nTicks = 0

\* C27: chartLoading is true in every state in which at least one chart
\* fetch is in flight and false otherwise, also when chart fetches overlap
\* (the two fetches started on mount, an interval change or a tick during a
\* fetch).
C27_LoadingIffInFlight == screen = "chart" => (chartLoading = ChartInFlight)

\* what the code keeps of C27: the indicator is never on without a fetch in
\* flight
C27_LoadingOnlyInFlight == (screen = "chart" /\ chartLoading) => ChartInFlight

\* one of the two chart fetches started on mount has settled while the other
\* is still in flight: the indicator is off and the chart region shows the
\* chart, or that it is unavailable
C27_Witness ==
    /\ screen = "chart" /\ SettledChart
    /\ ChartInFlight /\ ~chartLoading
    /\ nSwitches = 0 /\ nTicks = 0
    /\ RenderChart # "Loading chart..."

\* the last step ended fetchChartData in its outer catch clause
FailedChart(l) == ChartStep(l) /\ l.act = "settle" /\ l.outcome = "unavailable"

\* C28: a failed chart fetch discards the chart shown before it: after any
\* failing fetchChartData, started by the periodic refresh or by an interval
\* switch, chartData is null even if a valid series was on display, whereas
\* a failed price fetch keeps the price data published last.
C28_ChartDiscardedPriceKept ==
    [][/\ FailedChart(last') =>
             /\ chartData' = NoChart
             /\ chartData # NoChart => RenderChart' # "LineChart"
       /\ (FailedPrice(last') /\ screen = "chart") =>
             /\ price' = price /\ performanceData' = performanceData
             /\ lastUpdated' = lastUpdated
             /\ price # Null => (price' # Null /\ performanceData' # NoPerf)]_vars

\* the fetch of an interval switch has failed with nothing else in flight:
\* the chart region shows that the chart is unavailable, the price data of
\* the last successful price fetch is still there
C28_Witness ==
    /\ screen = "chart" /\ FailedChart(last) /\ last.interval # "1D"
    /\ Pending = {}
    /\ chartData = NoChart /\ RenderChart = "Chart data unavailable"
    /\ price # Null /\ performanceData # NoPerf /\ ~ErrorPanelShown

\* a periodic price fetch has failed under a chart and a price on display:
\* both are still set
C28_WitnessPrice ==
    /\ screen = "chart" /\ FailedPrice(last) /\ ~last.initial
    /\ price # Null /\ performanceData # NoPerf /\ chartData # NoChart

\* the step publishes a price that differs from the one on display
PriceChanged(l) ==
    /\ PriceStep(l) /\ l.act = "settle" /\ l.outcome = "published"
    /\ l.shown # Null /\ l.newPrice # l.shown

\* what the code keeps of C29: teardown cancels no fetch in flight and stops
\* the timer, so no attempt starts afterwards; a price fetch that settles
\* after teardown still writes its cells (the record on success, error on
\* failure, loading on the initial load)
C29_NotCancelled ==
    [][/\ (phase = "mounted" /\ phase' = "unmounted") =>
             (calls' = calls /\ ~intervalTimer')
       /\ phase = "unmounted" => nStarted' = nStarted
       /\ (phase = "unmounted" /\ PriceStep(last') /\ last'.act = "settle") =>
             /\ loading' = IF last'.initial THEN FALSE ELSE loading
             /\ last'.outcome = "published" =>
                   (Shown' = last'.newPrice /\ lastUpdated' # lastUpdated)
             /\ last'.outcome = "error" => error' # NoError]_vars

\* C29: a fetch that is in flight when the screen is torn down is not
\* cancelled: when it settles after teardown it still runs its state writes
\* (price data or error, loading) and still schedules the 2-second
\* flash-clear timer of the price change it brings; teardown stops only the
\* start of new periodic fetches.
C29_SettlesAfterTeardown ==
    /\ C29_NotCancelled
    /\ [][(phase = "unmounted" /\ PriceChanged(last')) =>
              (flashTimers' = flashTimers + 1 /\ priceColor' \in {GREEN, RED})]_vars

\* a periodic fetch settles after teardown with another price than the one
\* on display: the record is written, no colour is set and no timer scheduled
C29_Witness ==
    /\ phase = "unmounted" /\ PriceChanged(last) /\ ~last.initial
    /\ Shown = last.newPrice
    /\ flashTimers = 0 /\ priceColor = NoColor

\* the initial fetch fails after teardown: error and loading are written
C29_WitnessError ==
    /\ phase = "unmounted" /\ FailedPrice(last) /\ last.initial
    /\ error # NoError /\ ~loading

\* an attempt of the price routine is awaiting a response
PriceInFlight == \E c \in Pending : c.routine = "price"

\* what the code keeps of C30: error is written by the catch clause of a
\* failed fetch, which sets it, and by the start of an attempt, which clears
\* it, and by nothing else
C30_SetByFailureClearedByStart ==
    [][HasErrorCell(screen) =>
          /\ FailedPrice(last') => error' # NoError
          /\ (TickStep \/ last'.act = "mount") => error' = NoError
          /\ error' # error =>
                (FailedPrice(last') \/ TickStep \/ last'.act = "mount")]_vars

\* C30: on the screens that have an error state, error is non-null exactly
\* from the completion of a failed fetch until the start of the next attempt:
\* each attempt clears error before any response arrives, so error is null
\* while an attempt is in flight, even when that attempt then fails again.
C30_ErrorOnlyBetweenAttempts ==
    /\ C30_SetByFailureClearedByStart
    /\ []((HasErrorCell(screen) /\ PriceInFlight) => error = NoError)

\* the initial fetch has failed while the attempt of the first tick is in
\* flight: the error panel is shown over an attempt that has not answered
C30_Witness ==
    /\ HasErrorCell(screen) /\ FailedPrice(last) /\ last.initial
    /\ PriceInFlight /\ error # NoError /\ ErrorPanelShown
    /\ phase = "mounted"
====
